---- MODULE Spec2Model ----
(***************************************************************************)
(* PandaCode: the workspace-scoped file store (file_service.py) and the    *)
(* command sandbox with its session registry (terminal_service.py), over   *)
(* one shared filesystem.                                                  *)
(*                                                                         *)
(* Strings are sequences of one-character strings, so that prefix tests,   *)
(* trimming, tokenizing and path normalization are computed character by   *)
(* character as the Python library computes them.                          *)
(***************************************************************************)
EXTENDS Integers, Sequences, FiniteSets, TLC

VARIABLES fs, sessions, last, steps, cdTarget

vars == <<fs, sessions, last, steps, cdTarget>>

(***************************************************************************)
(* Bounds of the model.                                                    *)
(***************************************************************************)
\* number of operations in one run of the terminal specification
MaxSteps == 4

\* number of operations in one run of the file store specification
MaxFileSteps == 3

\* number of operations in one run of the version-control specification
MaxGitSteps == 2

\* number of lines in one porcelain status output
MaxLines == 2

\* number of paths in the files argument of one commit
MaxFiles == 2

\* number of calls in one run of the project listing specification
MaxProjectSteps == 2

\* largest max_files given to get_project_files
MaxCount == 2

(***************************************************************************)
(* String helpers (Python str methods).                                    *)
(***************************************************************************)
StartsWith(s, p) == Len(s) >= Len(p) /\ SubSeq(s, 1, Len(p)) = p

EndsWith(s, p) == Len(s) >= Len(p) /\ SubSeq(s, Len(s) - Len(p) + 1, Len(s)) = p

IsSpace(c) == c \in {" ", "\t", "\n", "\r"}

RECURSIVE lstrip(_)
lstrip(s) == IF s # <<>> /\ IsSpace(Head(s)) THEN lstrip(Tail(s)) ELSE s

RECURSIVE rstrip(_)
rstrip(s) ==
    IF s # <<>> /\ IsSpace(s[Len(s)]) THEN rstrip(SubSeq(s, 1, Len(s) - 1)) ELSE s

strip(s) == rstrip(lstrip(s))

\* str.split(sep): the pieces between the occurrences of the character sep
RECURSIVE SplitAt(_, _, _, _)
SplitAt(s, sep, cur, acc) ==
    IF s = <<>> THEN Append(acc, cur)
    ELSE IF Head(s) = sep THEN SplitAt(Tail(s), sep, <<>>, Append(acc, cur))
    ELSE SplitAt(Tail(s), sep, Append(cur, Head(s)), acc)

Split(s, sep) == SplitAt(s, sep, <<>>, <<>>)

\* sep.join(comps)
RECURSIVE Join(_, _)
Join(comps, sep) ==
    IF comps = <<>> THEN <<>>
    ELSE IF Len(comps) = 1 THEN comps[1]
    ELSE comps[1] \o <<sep>> \o Join(Tail(comps), sep)

\* index of the last occurrence of the character c in s, 0 if none
RECURSIVE RFind(_, _, _)
RFind(s, c, i) == IF i = 0 THEN 0 ELSE IF s[i] = c THEN i ELSE RFind(s, c, i - 1)

\* the first whitespace-delimited word of a stripped string, and the rest
RECURSIVE WordEnd(_, _)
WordEnd(s, i) == IF i > Len(s) \/ IsSpace(s[i]) THEN i - 1 ELSE WordEnd(s, i + 1)

\* s.split(None, 1) for a string s without leading whitespace
split_None_1(s) ==
    LET e == WordEnd(s, 1)
        rest == lstrip(SubSeq(s, e + 1, Len(s)))
    IN  IF s = <<>> THEN <<>>
        ELSE IF rest = <<>> THEN <<SubSeq(s, 1, e)>>
        ELSE <<SubSeq(s, 1, e), rest>>

(***************************************************************************)
(* posixpath                                                               *)
(***************************************************************************)
isabs(p) == StartsWith(p, <<"/">>)

\* os.path.join(a, b)
join(a, b) ==
    IF isabs(b) THEN b
    ELSE IF a = <<>> \/ EndsWith(a, <<"/">>) THEN a \o b
    ELSE a \o <<"/">> \o b

RECURSIVE NormComps(_, _, _)
NormComps(comps, initial_slashes, new_comps) ==
    IF comps = <<>> THEN new_comps
    ELSE LET comp == Head(comps)
             n == Len(new_comps)
         IN  IF comp = <<>> \/ comp = <<".">>
               THEN NormComps(Tail(comps), initial_slashes, new_comps)
             ELSE IF \/ comp # <<".", ".">>
                     \/ (initial_slashes = 0 /\ n = 0)
                     \/ (n > 0 /\ new_comps[n] = <<".", ".">>)
               THEN NormComps(Tail(comps), initial_slashes, Append(new_comps, comp))
             ELSE IF n > 0
               THEN NormComps(Tail(comps), initial_slashes, SubSeq(new_comps, 1, n - 1))
             ELSE NormComps(Tail(comps), initial_slashes, new_comps)

\* os.path.normpath(path)
normpath(path) ==
    IF path = <<>> THEN <<".">>
    ELSE LET initial_slashes ==
                 IF ~StartsWith(path, <<"/">>) THEN 0
                 ELSE IF StartsWith(path, <<"/", "/">>) /\ ~StartsWith(path, <<"/", "/", "/">>)
                   THEN 2
                 ELSE 1
             comps == NormComps(Split(path, "/"), initial_slashes, <<>>)
             body == Join(comps, "/")
             out == IF initial_slashes = 2 THEN <<"/", "/">> \o body
                    ELSE IF initial_slashes = 1 THEN <<"/">> \o body
                    ELSE body
         IN  IF out = <<>> THEN <<".">> ELSE out

\* os.path.dirname(p)
dirname(p) ==
    LET i == RFind(p, "/", Len(p))
        head == SubSeq(p, 1, i)
    IN  IF head # <<>> /\ \E k \in 1..Len(head) : head[k] # "/"
          THEN LET RECURSIVE cut(_)
                   cut(h) == IF h # <<>> /\ h[Len(h)] = "/"
                               THEN cut(SubSeq(h, 1, Len(h) - 1)) ELSE h
               IN  cut(head)
        ELSE head

\* os.path.basename(p)
basename(p) == SubSeq(p, RFind(p, "/", Len(p)) + 1, Len(p))

\* os.path.splitext(p)[1], for names without a leading dot
splitext_ext(p) ==
    LET b == basename(p)
        d == RFind(b, ".", Len(b))
    IN  IF d > 1 THEN SubSeq(b, d, Len(b)) ELSE <<>>

(***************************************************************************)
(* The filesystem: a function from normalized absolute paths to entries.   *)
(* An entry is a directory or a file with its bytes.  "/" always exists.   *)
(***************************************************************************)
DirEntry == [kind |-> "dir", data |-> <<>>]

FileEntry(bytes) == [kind |-> "file", data |-> bytes]

\* the entries strictly below path p
Below(f, p) ==
    {q \in DOMAIN f : q # p /\ StartsWith(q, IF p = <<"/">> THEN p ELSE p \o <<"/">>)}

\* os.path.exists / os.path.isdir
exists(f, p) == p \in DOMAIN f

isdir(f, p) == p \in DOMAIN f /\ f[p].kind = "dir"

\* errno of a lookup whose parent directory is not usable, "" if it is
ParentErr(f, p) ==
    LET parent == dirname(p)
    IN  IF isdir(f, parent) THEN ""
        ELSE IF \E q \in DOMAIN f : f[q].kind = "file" /\ StartsWith(p, q \o <<"/">>)
          THEN "NotADirectoryError"
        ELSE "FileNotFoundError"

\* os.mkdir(p)
os_mkdir(f, p) ==
    IF exists(f, p) THEN [fs |-> f, err |-> "FileExistsError"]
    ELSE IF ParentErr(f, p) # "" THEN [fs |-> f, err |-> ParentErr(f, p)]
    ELSE [fs |-> [q \in DOMAIN f \cup {p} |-> IF q = p THEN DirEntry ELSE f[q]],
          err |-> ""]

\* os.makedirs(name, exist_ok)
RECURSIVE os_makedirs(_, _, _)
os_makedirs(f, name, exist_ok) ==
    LET head == dirname(name)
        tail == basename(name)
        up == IF head # <<>> /\ tail # <<>> /\ ~exists(f, head)
                THEN os_makedirs(f, head, exist_ok)
              ELSE [fs |-> f, err |-> ""]
    IN  IF name = <<>> THEN [fs |-> f, err |-> "FileNotFoundError"]
        ELSE IF up.err \notin {"", "FileExistsError"} THEN [fs |-> up.fs, err |-> up.err]
        ELSE LET made == os_mkdir(up.fs, name)
             IN  IF made.err = "" THEN made
                 ELSE IF exist_ok /\ isdir(up.fs, name) THEN [fs |-> up.fs, err |-> ""]
                 ELSE [fs |-> up.fs, err |-> made.err]

\* open(p, 'w').write(bytes)
open_w(f, p, bytes) ==
    IF isdir(f, p) THEN [fs |-> f, err |-> "IsADirectoryError"]
    ELSE IF ParentErr(f, p) # "" THEN [fs |-> f, err |-> ParentErr(f, p)]
    ELSE [fs |-> [q \in DOMAIN f \cup {p} |-> IF q = p THEN FileEntry(bytes) ELSE f[q]],
          err |-> ""]

\* shutil.rmtree(p)
shutil_rmtree(f, p) ==
    [fs |-> [q \in DOMAIN f \ ({p} \cup Below(f, p)) |-> f[q]], err |-> ""]

\* os.remove(p)
os_remove(f, p) ==
    [fs |-> [q \in DOMAIN f \ {p} |-> f[q]], err |-> ""]

\* os.rename(old, new) (POSIX rename(2)); old exists
os_rename(f, old, new) ==
    LET moved == {old} \cup Below(f, old)
        gone == moved \cup {new} \cup Below(f, new)
        Rebase(q) == new \o SubSeq(q, Len(old) + 1, Len(q))
        landed == {Rebase(q) : q \in moved}
        Origin(q) == CHOOSE o \in moved : Rebase(o) = q
    IN  IF old = new THEN [fs |-> f, err |-> ""]
        ELSE IF StartsWith(new, old \o <<"/">>) \/ old = <<"/">>
          THEN [fs |-> f, err |-> "OSError"]
        ELSE IF ParentErr(f, new) # "" THEN [fs |-> f, err |-> ParentErr(f, new)]
        ELSE IF exists(f, new) /\ isdir(f, new) /\ ~isdir(f, old)
          THEN [fs |-> f, err |-> "IsADirectoryError"]
        ELSE IF exists(f, new) /\ ~isdir(f, new) /\ isdir(f, old)
          THEN [fs |-> f, err |-> "NotADirectoryError"]
        ELSE IF isdir(f, new) /\ Below(f, new) # {}
          THEN [fs |-> f, err |-> "OSError"]
        ELSE [fs |-> [q \in (DOMAIN f \ gone) \cup landed |->
                         IF q \in landed THEN f[Origin(q)] ELSE f[q]],
              err |-> ""]

\* text-mode write (newline=None): "\n" becomes os.linesep, which is "\n" on POSIX
RECURSIVE TextEncode(_)
TextEncode(text) ==
    IF text = <<>> THEN <<>>
    ELSE (IF Head(text) = "\n" THEN <<"\n">> ELSE <<Head(text)>>) \o TextEncode(Tail(text))

\* text-mode read (newline=None): "\r\n" and "\r" both become "\n"
RECURSIVE TextDecode(_)
TextDecode(bytes) ==
    IF bytes = <<>> THEN <<>>
    ELSE IF Head(bytes) = "\r"
      THEN <<"\n">> \o TextDecode(IF Len(bytes) >= 2 /\ bytes[2] = "\n"
                                    THEN Tail(Tail(bytes)) ELSE Tail(bytes))
    ELSE <<Head(bytes)>> \o TextDecode(Tail(bytes))

\* extensions mimetypes.guess_type maps to an image/ type
ImageExts == {<<".", "p", "n", "g">>}

IsImage(p) == splitext_ext(p) \in ImageExts

(***************************************************************************)
(* FileService (file_service.py)                                           *)
(***************************************************************************)
\* the workspace root handed to both services at construction
workspace_dir == <<"/", "w">>

\* os.path.relpath(path, start), both normalized and absolute
relpath(path, start) ==
    LET pc == SelectSeq(Split(path, "/"), LAMBDA c : c # <<>>)
        sc == SelectSeq(Split(start, "/"), LAMBDA c : c # <<>>)
        Common(n) == n <= Len(pc) /\ n <= Len(sc) /\ SubSeq(pc, 1, n) = SubSeq(sc, 1, n)
        i == CHOOSE n \in 0..Len(sc) : Common(n) /\ ~Common(n + 1)
        rel == [k \in 1..(Len(sc) - i) |-> <<".", ".">>] \o SubSeq(pc, i + 1, Len(pc))
    IN  IF rel = <<>> THEN <<".">> ELSE Join(rel, "/")

\* FileService._get_full_path: ok is FALSE where the ValueError is raised
_get_full_path(relative_path) ==
    IF relative_path = <<>> THEN [ok |-> TRUE, path |-> workspace_dir]
    ELSE LET full_path == normpath(join(workspace_dir, relative_path))
         IN  IF ~StartsWith(full_path, workspace_dir)
               THEN [ok |-> FALSE, path |-> full_path]
             ELSE [ok |-> TRUE, path |-> full_path]

PathEscape == "ValueError: Path outside workspace not allowed"

Raise(f, e) == [fs |-> f, err |-> e, ret |-> <<>>, items |-> {}]

Return(f, r) == [fs |-> f, err |-> "", ret |-> r, items |-> {}]

\* FileService.list_files
list_files(f, path) ==
    LET g == _get_full_path(path)
        full_path == g.path
        names == {basename(q) : q \in {c \in Below(f, full_path) : dirname(c) = full_path}}
        shown == {n \in names :
                    ~(StartsWith(n, <<".">>)
                      /\ n \notin {<<".", "g", "i", "t">>,
                                   <<".", "g", "i", "t", "i", "g", "n", "o", "r", "e">>})}
    IN  IF ~g.ok THEN Raise(f, PathEscape)
        ELSE IF ~exists(f, full_path) THEN Return(f, <<>>)
        ELSE IF ~isdir(f, full_path) THEN Raise(f, "NotADirectoryError")
        ELSE [fs |-> f, err |-> "", ret |-> <<>>,
              items |-> {[name |-> n,
                          path |-> relpath(join(full_path, n), workspace_dir),
                          is_directory |-> isdir(f, join(full_path, n)),
                          size |-> IF isdir(f, join(full_path, n)) THEN -1
                                   ELSE Len(f[join(full_path, n)].data)] : n \in shown}]

\* FileService.read_file
read_file(f, file_path) ==
    LET g == _get_full_path(file_path)
        full_path == g.path
    IN  IF ~g.ok THEN Raise(f, PathEscape)
        ELSE IF ~exists(f, full_path) THEN Raise(f, "FileNotFoundError: File not found")
        ELSE IF isdir(f, full_path) THEN Raise(f, "ValueError: Path is a directory")
        ELSE IF IsImage(full_path) THEN Raise(f, "ValueError: Cannot read binary file")
        ELSE Return(f, TextDecode(f[full_path].data))

\* FileService.write_file
write_file(f, file_path, content) ==
    LET g == _get_full_path(file_path)
        full_path == g.path
        md == os_makedirs(f, dirname(full_path), TRUE)
        wr == open_w(md.fs, full_path, TextEncode(content))
    IN  IF ~g.ok THEN Raise(f, PathEscape)
        ELSE IF md.err # "" THEN Raise(md.fs, md.err)
        ELSE IF wr.err # "" THEN Raise(wr.fs, wr.err)
        ELSE Return(wr.fs, <<>>)

\* FileService.create_file
create_file(f, file_path) ==
    LET g == _get_full_path(file_path)
        full_path == g.path
        md == os_makedirs(f, dirname(full_path), TRUE)
        wr == open_w(md.fs, full_path, <<>>)
    IN  IF ~g.ok THEN Raise(f, PathEscape)
        ELSE IF exists(f, full_path) THEN Raise(f, "ValueError: File already exists")
        ELSE IF md.err # "" THEN Raise(md.fs, md.err)
        ELSE IF wr.err # "" THEN Raise(wr.fs, wr.err)
        ELSE Return(wr.fs, <<>>)

\* FileService.create_directory
create_directory(f, dir_path) ==
    LET g == _get_full_path(dir_path)
        full_path == g.path
        md == os_makedirs(f, full_path, FALSE)
    IN  IF ~g.ok THEN Raise(f, PathEscape)
        ELSE IF exists(f, full_path) THEN Raise(f, "ValueError: Directory already exists")
        ELSE IF md.err # "" THEN Raise(md.fs, md.err)
        ELSE Return(md.fs, <<>>)

\* FileService.delete_file
delete_file(f, file_path) ==
    LET g == _get_full_path(file_path)
        full_path == g.path
    IN  IF ~g.ok THEN Raise(f, PathEscape)
        ELSE IF ~exists(f, full_path) THEN Raise(f, "FileNotFoundError: File not found")
        ELSE IF isdir(f, full_path) THEN Return(shutil_rmtree(f, full_path).fs, <<>>)
        ELSE Return(os_remove(f, full_path).fs, <<>>)

\* mutant: the destination is not checked before the move
RenameNoDestinationCheck(f, old_path, new_path) ==
    LET go == _get_full_path(old_path)
        gn == _get_full_path(new_path)
        md == os_makedirs(f, dirname(gn.path), TRUE)
        rn == os_rename(md.fs, go.path, gn.path)
    IN  IF ~go.ok \/ ~gn.ok THEN Raise(f, PathEscape)
        ELSE IF ~exists(f, go.path) THEN Raise(f, "FileNotFoundError: File not found")
        ELSE IF md.err # "" THEN Raise(md.fs, md.err)
        ELSE IF rn.err # "" THEN Raise(rn.fs, rn.err)
        ELSE Return(rn.fs, <<>>)

\* FileService.rename_file
rename_file(f, old_path, new_path) ==
    LET go == _get_full_path(old_path)
        gn == _get_full_path(new_path)
        old_full_path == go.path
        new_full_path == gn.path
        md == os_makedirs(f, dirname(new_full_path), TRUE)
        rn == os_rename(md.fs, old_full_path, new_full_path)
    IN  IF ~go.ok \/ ~gn.ok THEN Raise(f, PathEscape)
        ELSE IF ~exists(f, old_full_path) THEN Raise(f, "FileNotFoundError: File not found")
        ELSE IF exists(f, new_full_path)
          THEN Raise(f, "ValueError: Destination already exists")
        ELSE IF md.err # "" THEN Raise(md.fs, md.err)
        ELSE IF rn.err # "" THEN Raise(rn.fs, rn.err)
        ELSE Return(rn.fs, <<>>)

(***************************************************************************)
(* TerminalService (terminal_service.py)                                   *)
(***************************************************************************)
\* os.environ.copy()
Environ == "os.environ"

\* the session dictionary made on first reference; rows/cols -1: key absent
NewSession == [cwd |-> workspace_dir, env |-> Environ, rows |-> -1, cols |-> -1]

\* mutant of EnsureSession: the session is created anew on every call
EnsureSessionAnew(sess, session_id) ==
    [s \in DOMAIN sess \cup {session_id} |-> IF s = session_id THEN NewSession ELSE sess[s]]

\* if session_id not in self.sessions: self.sessions[session_id] = {...}
EnsureSession(sess, session_id) ==
    IF session_id \in DOMAIN sess THEN sess
    ELSE [s \in DOMAIN sess \cup {session_id} |->
             IF s = session_id THEN NewSession ELSE sess[s]]

NoError == [msg |-> "", arg |-> <<>>]

TerminalResult(output, msg, arg, exit_code) ==
    [output |-> output, error |-> [msg |-> msg, arg |-> arg], exit_code |-> exit_code,
     raised |-> FALSE]

\* shlex.split(command) over letters, blanks and single quotes;
\* ok is FALSE where ValueError("No closing quotation") is raised
RECURSIVE ShlexScan(_, _, _, _, _)
ShlexScan(s, cur, started, inquote, acc) ==
    IF s = <<>>
      THEN IF inquote THEN [ok |-> FALSE, args |-> <<>>]
           ELSE [ok |-> TRUE, args |-> IF started THEN Append(acc, cur) ELSE acc]
    ELSE LET c == Head(s)
         IN  IF inquote
               THEN IF c = "'" THEN ShlexScan(Tail(s), cur, TRUE, FALSE, acc)
                    ELSE ShlexScan(Tail(s), Append(cur, c), TRUE, TRUE, acc)
             ELSE IF IsSpace(c)
               THEN IF started THEN ShlexScan(Tail(s), <<>>, FALSE, FALSE, Append(acc, cur))
                    ELSE ShlexScan(Tail(s), <<>>, FALSE, FALSE, acc)
             ELSE IF c = "'" THEN ShlexScan(Tail(s), cur, TRUE, TRUE, acc)
             ELSE ShlexScan(Tail(s), Append(cur, c), TRUE, FALSE, acc)

shlex_split(command) == ShlexScan(command, <<>>, FALSE, FALSE, <<>>)

\* mutant: rm is missing from the deny-list
DangerousWithoutRm ==
    {<<"r", "m", "d", "i", "r">>, <<"d", "e", "l">>,
     <<"f", "o", "r", "m", "a", "t">>, <<"f", "d", "i", "s", "k">>, <<"m", "k", "f", "s">>}

dangerous_commands ==
    {<<"r", "m">>, <<"r", "m", "d", "i", "r">>, <<"d", "e", "l">>,
     <<"f", "o", "r", "m", "a", "t">>, <<"f", "d", "i", "s", "k">>, <<"m", "k", "f", "s">>}

\* the programs found on PATH: ls is, zz is not, and there is no external cd
Executables == {<<"l", "s">>}

\* subprocess.run(args, cwd=...): the exception it raises, or how the child ends.
\* The child changes directory before it executes the program.
subprocess_run(f, args, cwd, child) ==
    IF args = <<>> THEN "IndexError"
    ELSE IF ~exists(f, cwd) THEN "FileNotFoundError:cwd"
    ELSE IF ~isdir(f, cwd) THEN "NotADirectoryError"
    ELSE IF args[1] \notin Executables THEN "FileNotFoundError:exec"
    ELSE child.kind

\* TerminalService._handle_cd_command: the new session and the result.
\* Nothing in its try block raises for a string command, so the 'cd error'
\* handler (lines 158-163) is never entered.
_handle_cd_command(f, command, session) ==
    LET parts == split_None_1(strip(command))
        path == parts[2]
        path_name == IF Len(parts) = 1 THEN <<"~">> ELSE path
        new_path == IF Len(parts) = 1 THEN workspace_dir
                    ELSE IF isabs(path) THEN normpath(path)
                    ELSE normpath(join(session.cwd, path))
        Stay(msg, arg, why) ==
            [session |-> session, res |-> TerminalResult(<<>>, msg, arg, 1), outcome |-> why]
    IN  IF Len(parts) # 1 /\ ~StartsWith(new_path, workspace_dir)
          THEN Stay("Access denied: path outside workspace\n", <<>>, "cd_denied")
        ELSE IF ~exists(f, new_path)
          THEN Stay("No such file or directory: {arg}\n", path_name, "cd_missing")
        ELSE IF ~isdir(f, new_path)
          THEN Stay("Not a directory: {arg}\n", path_name, "cd_notdir")
        ELSE [session |-> [session EXCEPT !.cwd = new_path],
              res |-> TerminalResult(<<>>, "", <<>>, 0), outcome |-> "cd_ok"]

\* mutant: the exit codes of a timeout and of a missing executable are swapped
SpawnResultSwapped(outcome, args, command, child) ==
    IF outcome = "completed"
      THEN TerminalResult(child.stdout, child.stderr, <<>>, child.returncode)
    ELSE IF outcome = "TimeoutExpired"
      THEN TerminalResult(<<>>, "Command timed out after 30 seconds\n", <<>>, 127)
    ELSE IF outcome \in {"FileNotFoundError:cwd", "FileNotFoundError:exec"}
      THEN TerminalResult(<<>>, "Command not found: {arg}\n",
                          IF args # <<>> THEN args[1] ELSE command, 124)
    ELSE TerminalResult(<<>>, "Error executing command: {arg}\n", <<outcome>>, 1)

\* mutant: the handlers catch OSError only, so other exceptions reach the caller
SpawnResultOsErrorOnly(outcome, args, command, child) ==
    IF outcome = "completed"
      THEN TerminalResult(child.stdout, child.stderr, <<>>, child.returncode)
    ELSE IF outcome = "TimeoutExpired"
      THEN TerminalResult(<<>>, "Command timed out after 30 seconds\n", <<>>, 124)
    ELSE IF outcome \in {"FileNotFoundError:cwd", "FileNotFoundError:exec"}
      THEN TerminalResult(<<>>, "Command not found: {arg}\n",
                          IF args # <<>> THEN args[1] ELSE command, 127)
    ELSE IF outcome = "IndexError"
      THEN [TerminalResult(<<>>, "", <<>>, 0) EXCEPT !.raised = TRUE]
    ELSE TerminalResult(<<>>, "Error executing command: {arg}\n", <<outcome>>, 1)

\* the except clauses of execute_command's inner try
SpawnResult(outcome, args, command, child) ==
    IF outcome = "completed"
      THEN TerminalResult(child.stdout, child.stderr, <<>>, child.returncode)
    ELSE IF outcome = "TimeoutExpired"
      THEN TerminalResult(<<>>, "Command timed out after 30 seconds\n", <<>>, 124)
    ELSE IF outcome \in {"FileNotFoundError:cwd", "FileNotFoundError:exec"}
      THEN TerminalResult(<<>>, "Command not found: {arg}\n",
                          IF args # <<>> THEN args[1] ELSE command, 127)
    ELSE TerminalResult(<<>>, "Error executing command: {arg}\n", <<outcome>>, 1)

\* TerminalService.execute_command: the registry afterwards, the result, the
\* path taken (outcome) and whether subprocess.run was called (spawn).
\* tokenization and the spawn sit inside the inner try, whose clauses catch
\* every Exception; the outer handler (lines 99-105) is never entered for a
\* string command.
execute_command(f, sess, command, session_id, child) ==
    LET made == EnsureSession(sess, session_id)
        session == made[session_id]
        Keep(res, why, ran) ==
            [sessions |-> made, res |-> res, outcome |-> why, spawn |-> ran]
        sp == shlex_split(command)
        args == sp.args
        outcome == subprocess_run(f, args, session.cwd, child)
    IN  IF StartsWith(strip(command), <<"c", "d", " ">>)
          THEN LET cd == _handle_cd_command(f, command, session)
               IN  [sessions |-> [made EXCEPT ![session_id] = cd.session],
                    res |-> cd.res, outcome |-> cd.outcome, spawn |-> FALSE]
        ELSE IF strip(command) = <<"p", "w", "d">>
          THEN Keep(TerminalResult(session.cwd \o <<"\n">>, "", <<>>, 0), "pwd", FALSE)
        ELSE IF strip(command) = <<"c", "l", "e", "a", "r">>
          THEN Keep(TerminalResult(<<"ESC[2J", "ESC[H">>, "", <<>>, 0), "clear", FALSE)
        ELSE IF ~sp.ok
          THEN Keep(TerminalResult(<<>>, "Error executing command: {arg}\n",
                                   <<"No closing quotation">>, 1), "ValueError", FALSE)
        ELSE IF args # <<>> /\ args[1] \in dangerous_commands
          THEN Keep(TerminalResult(<<>>, "Command \"{arg}\" is not allowed for security reasons\n",
                                   args[1], 1), "denied", FALSE)
        ELSE Keep(SpawnResult(outcome, args, command, child), outcome, TRUE)

\* mutant: resizing always builds the session dictionary anew
ResizeRecreatesSession(sess, session_id, rows, cols) ==
    [s \in DOMAIN sess \cup {session_id} |->
        IF s = session_id THEN [NewSession EXCEPT !.rows = rows, !.cols = cols]
        ELSE sess[s]]

\* TerminalService.resize_terminal
resize_terminal(sess, session_id, rows, cols) ==
    LET made == EnsureSession(sess, session_id)
    IN  [made EXCEPT ![session_id].rows = rows, ![session_id].cols = cols]

\* TerminalService.get_session_info: the registry afterwards
get_session_info(sess, session_id) == EnsureSession(sess, session_id)

(***************************************************************************)
(* Inputs of the operations.                                               *)
(***************************************************************************)
SessionIds == {"default", "s2"}

\* path arguments of the file operations
FsPaths ==
    {<<>>, <<"a">>, <<"a", "/", "b">>, <<".", ".">>, <<".", ".", "/", "w", "2">>,
     <<"p", ".", "p", "n", "g">>}

\* path arguments of the file operations that run between commands
TermPaths == {<<"a">>, <<".", ".", "/", "w", "2">>}

\* contents written
Texts == {<<"x">>, <<"x", "\r">>}

\* command lines
Commands ==
    {<<"c", "d", " ", "a">>,
     <<"c", "d", " ", ".", ".">>,
     <<"c", "d", " ", ".", ".", "/", "w", "2">>,
     <<"c", "d", " ", "/", "w", "/", "a">>,
     <<"c", "d", " ", "/">>,
     <<"c", "d">>,
     <<" ", "p", "w", "d">>,
     <<"c", "l", "e", "a", "r">>,
     <<"r", "m", " ", "a">>,
     <<"l", "s">>,
     <<"z", "z">>,
     <<" ">>,
     <<"'">>}

\* what a child process that starts can do
Children ==
    {[kind |-> "completed", stdout |-> <<"o">>, stderr |-> "", returncode |-> 0],
     [kind |-> "completed", stdout |-> <<>>, stderr |-> "e", returncode |-> 2],
     [kind |-> "completed", stdout |-> <<>>, stderr |-> "", returncode |-> 1],
     [kind |-> "TimeoutExpired", stdout |-> <<>>, stderr |-> "", returncode |-> 0],
     [kind |-> "PermissionError", stdout |-> <<>>, stderr |-> "", returncode |-> 0]}

FirstChild == CHOOSE k \in Children : TRUE

NoChild == [kind |-> "none", stdout |-> <<>>, stderr |-> "", returncode |-> 0]

\* terminal geometries offered to resize_terminal
Geometries == {<<24, 80>>}

(***************************************************************************)
(* State machine.  last records the operation just run: its arguments and  *)
(* what it returned or raised.  cdTarget is a history variable: the        *)
(* directory named by each session's most recent successful cd.            *)
(***************************************************************************)
NoResult == TerminalResult(<<>>, "", <<>>, 0)

\* GitStatus (models.py) with nothing in it
NoStatus ==
    [branch |-> <<>>, modified_files |-> <<>>, staged_files |-> <<>>,
     untracked_files |-> <<>>]

\* files=None
NoFiles == [given |-> FALSE, list |-> <<>>]

Blank ==
    [op |-> "init", sid |-> "", cmd |-> <<>>, path |-> <<>>, path2 |-> <<>>,
     text |-> <<>>, err |-> "", ret |-> <<>>, items |-> {}, res |-> NoResult,
     outcome |-> "", spawn |-> FALSE, child |-> NoChild,
     git |-> <<>>, status |-> NoStatus, files |-> NoFiles, rcs |-> <<>>, max |-> 0,
     paths |-> <<>>]

\* the workspace directory exists and is empty; beside it there may be a
\* directory whose name begins with the workspace's name
Sibling == <<"/", "w", "2">>

Init ==
    /\ fs \in {[q \in {<<"/">>, workspace_dir} |-> DirEntry],
               [q \in {<<"/">>, workspace_dir, Sibling} |-> DirEntry]}
    /\ sessions = [s \in {} |-> NewSession]
    /\ last = Blank
    /\ steps = 0
    /\ cdTarget = [s \in SessionIds |-> workspace_dir]

FileOp(name, p, p2, t, result, bound) ==
    /\ steps < bound
    /\ \E r \in {result} :
          /\ steps' = steps + 1
          /\ fs' = r.fs
          /\ last' = [Blank EXCEPT !.op = name, !.path = p, !.path2 = p2, !.text = t,
                                   !.err = r.err, !.ret = r.ret, !.items = r.items]
          /\ UNCHANGED <<sessions, cdTarget>>

List == \E p \in FsPaths : FileOp("list", p, <<>>, <<>>, list_files(fs, p), MaxFileSteps)

Read == \E p \in FsPaths : FileOp("read", p, <<>>, <<>>, read_file(fs, p), MaxFileSteps)

Write == \E p \in FsPaths, t \in Texts :
             FileOp("write", p, <<>>, t, write_file(fs, p, t), MaxFileSteps)

Create == \E p \in FsPaths : FileOp("create", p, <<>>, <<>>, create_file(fs, p), MaxFileSteps)

Mkdir == \E p \in FsPaths : FileOp("mkdir", p, <<>>, <<>>, create_directory(fs, p), MaxFileSteps)

Delete == \E p \in FsPaths : FileOp("delete", p, <<>>, <<>>, delete_file(fs, p), MaxFileSteps)

Rename == \E p \in FsPaths, p2 \in FsPaths :
              FileOp("rename", p, p2, <<>>, rename_file(fs, p, p2), MaxFileSteps)

\* the file operations interleaved with the terminal's, on fewer paths
TermCreate == \E p \in TermPaths : FileOp("create", p, <<>>, <<>>, create_file(fs, p), MaxSteps)

TermMkdir == \E p \in TermPaths : FileOp("mkdir", p, <<>>, <<>>, create_directory(fs, p), MaxSteps)

TermDelete == \E p \in TermPaths : FileOp("delete", p, <<>>, <<>>, delete_file(fs, p), MaxSteps)

\* a command line that asks for a change of directory
IsCd(command) ==
    StartsWith(strip(command), <<"c", "d", " ">>) \/ strip(command) = <<"c", "d">>

\* the directory a cd command names, from the session's directory before it
CdNamed(cwd, command) ==
    LET parts == split_None_1(strip(command))
    IN  IF Len(parts) = 1 THEN workspace_dir
        ELSE IF isabs(parts[2]) THEN normpath(parts[2])
        ELSE normpath(join(cwd, parts[2]))

Execute ==
    \E c \in Commands, sid \in SessionIds, child \in Children :
      \E r \in {execute_command(fs, sessions, c, sid, child)} :
        LET used == r.outcome \in {"completed", "TimeoutExpired", "PermissionError"}
            before == EnsureSession(sessions, sid)[sid].cwd
        IN  /\ steps < MaxSteps
            /\ used \/ child = FirstChild
            /\ steps' = steps + 1
            /\ sessions' = r.sessions
            /\ last' = [Blank EXCEPT !.op = "execute", !.sid = sid, !.cmd = c,
                                     !.res = r.res, !.outcome = r.outcome,
                                     !.spawn = r.spawn,
                                     !.child = IF used THEN child ELSE NoChild]
            /\ cdTarget' = IF IsCd(c) /\ r.res.exit_code = 0
                             THEN [cdTarget EXCEPT ![sid] = CdNamed(before, c)]
                           ELSE cdTarget
            /\ UNCHANGED fs

Resize ==
    \E sid \in SessionIds, g \in Geometries :
        /\ steps < MaxSteps
        /\ steps' = steps + 1
        /\ sessions' = resize_terminal(sessions, sid, g[1], g[2])
        /\ last' = [Blank EXCEPT !.op = "resize", !.sid = sid]
        /\ UNCHANGED <<fs, cdTarget>>

SessionInfo ==
    \E sid \in SessionIds :
        /\ steps < MaxSteps
        /\ steps' = steps + 1
        /\ sessions' = get_session_info(sessions, sid)
        /\ last' = [Blank EXCEPT !.op = "info", !.sid = sid]
        /\ UNCHANGED <<fs, cdTarget>>

\* the command sandbox, with files and directories coming and going under it
Next ==
    \/ Execute
    \/ Resize
    \/ SessionInfo
    \/ TermCreate
    \/ TermMkdir
    \/ TermDelete

Spec == Init /\ [][Next]_vars

\* the file store alone
NextFile ==
    \/ List
    \/ Read
    \/ Write
    \/ Create
    \/ Mkdir
    \/ Delete
    \/ Rename

SpecFile == Init /\ [][NextFile]_vars

(***************************************************************************)
(* Properties.                                                             *)
(***************************************************************************)
\* p, a normalized absolute path, is the workspace directory or lies below it
InWorkspaceTree(p) == p = workspace_dir \/ StartsWith(p, workspace_dir \o <<"/">>)

\* where a relative path argument of a file operation leads
Resolved(p) == normpath(join(workspace_dir, p))

ExecuteRan == last.op = "execute"

\* the session's directory when an execute call on sid starts
CwdBefore(sid) == EnsureSession(sessions, sid)[sid].cwd

\* C1: every session's cwd is the workspace directory or a descendant of it,
\* never a directory outside it such as a sibling whose name begins with the
\* workspace's name.
C1_CwdInsideWorkspace ==
    \A s \in DOMAIN sessions : InWorkspaceTree(sessions[s].cwd)

\* C2: a file operation given a relative path whose normalized resolution leaves
\* the workspace tree is rejected with the path-escape error, and changes no
\* filesystem entry.
C2_EscapeRejected ==
    [][(last'.op \in {"list", "read", "write", "create", "mkdir", "delete", "rename"}
        /\ (~InWorkspaceTree(Resolved(last'.path))
            \/ (last'.op = "rename" /\ ~InWorkspaceTree(Resolved(last'.path2)))))
       => (last'.err = PathEscape /\ fs' = fs)]_vars

\* the ways execute_command fails
FailureOutcomes ==
    {"cd_denied", "cd_missing", "cd_notdir", "denied", "ValueError", "IndexError",
     "FileNotFoundError:cwd", "FileNotFoundError:exec", "NotADirectoryError",
     "TimeoutExpired", "PermissionError"}

\* C3: execute never raises: it returns a result for every command line, and on
\* every failure path the result has a non-zero exit code and a non-empty error.
C3_ExecuteNeverRaises ==
    ExecuteRan =>
        /\ ~last.res.raised
        /\ last.outcome \in FailureOutcomes
              => (last.res.exit_code # 0 /\ last.res.error.msg # "")
        /\ last.outcome \in FailureOutcomes \cup {"cd_ok", "pwd", "clear", "completed"}

\* an empty, a blank and an unbalanced command line each came back as a failure
C3_Witness ==
    /\ ExecuteRan
    /\ last.cmd \in {<<" ">>, <<"'">>}
    /\ last.res.exit_code = 1
    /\ last.res.error.msg # ""

\* the deny-list of the specification
DenyList ==
    {<<"r", "m">>, <<"r", "m", "d", "i", "r">>, <<"d", "e", "l">>,
     <<"f", "o", "r", "m", "a", "t">>, <<"f", "d", "i", "s", "k">>, <<"m", "k", "f", "s">>}

FirstTokenDenied(command) ==
    LET sp == shlex_split(command)
    IN  sp.ok /\ sp.args # <<>> /\ sp.args[1] \in DenyList

\* C4: a command line whose first token is on the deny-list returns exit code 1
\* with a message, spawns no child process, and leaves the session's cwd and
\* environment as they were.
C4_DeniedNoSpawn ==
    [][(last'.op = "execute" /\ FirstTokenDenied(last'.cmd))
       => /\ last'.res.exit_code = 1
          /\ last'.res.error.msg # ""
          /\ ~last'.spawn
          /\ sessions'[last'.sid].cwd = CwdBefore(last'.sid)
          /\ sessions'[last'.sid].env = EnsureSession(sessions, last'.sid)[last'.sid].env
          /\ fs' = fs]_vars

\* a denied command in a session that had moved away from the workspace root
C4_Witness ==
    /\ ExecuteRan
    /\ FirstTokenDenied(last.cmd)
    /\ last.outcome = "denied"
    /\ sessions[last.sid].cwd # workspace_dir

\* C5: a command line that trims to exactly cd spawns nothing, sets the
\* session's cwd to the workspace root and returns empty output with exit code 0.
C5_BareCdGoesToRoot ==
    (ExecuteRan /\ strip(last.cmd) = <<"c", "d">>)
        => /\ ~last.spawn
           /\ sessions[last.sid].cwd = workspace_dir
           /\ last.res.output = <<>>
           /\ last.res.exit_code = 0

C7_RejectedCd ==
    [][(last'.op = "execute" /\ StartsWith(strip(last'.cmd), <<"c", "d", " ">>)
        /\ last'.res.exit_code # 0)
       => LET target == CdNamed(CwdBefore(last'.sid), last'.cmd)
          IN  /\ last'.res.exit_code = 1
              /\ sessions'[last'.sid].cwd = CwdBefore(last'.sid)
              /\ last'.res.error.msg =
                    IF ~InWorkspaceTree(target)
                      THEN "Access denied: path outside workspace\n"
                    ELSE IF ~exists(fs, target) THEN "No such file or directory: {arg}\n"
                    ELSE "Not a directory: {arg}\n"]_vars

C9_WriteReadRoundTrip ==
    [][(last.op = "write" /\ last.err = ""
        /\ last'.op = "read" /\ last'.path = last.path
        /\ ~IsImage(Resolved(last'.path)))
       => (last'.err = "" /\ last'.ret = last.text)]_vars

\* an existing entry of the workspace tree
ExistsInWorkspace(f, p) == exists(f, Resolved(p)) /\ InWorkspaceTree(Resolved(p))

\* C10 as stated: create or mkdir on an existing path of the workspace, and
\* rename onto an existing path of the workspace, fail with an already-exists
\* error and change nothing.
C10_NeverClobber ==
    [][/\ (last'.op = "create" /\ ExistsInWorkspace(fs, last'.path))
            => (last'.err = "ValueError: File already exists" /\ fs' = fs)
       /\ (last'.op = "mkdir" /\ ExistsInWorkspace(fs, last'.path))
            => (last'.err = "ValueError: Directory already exists" /\ fs' = fs)
       /\ (last'.op = "rename" /\ ExistsInWorkspace(fs, last'.path2))
            => (last'.err = "ValueError: Destination already exists" /\ fs' = fs)]_vars

\* C10 as amended: create or mkdir on an existing path, and rename onto an
\* existing path, always fail and change nothing. The error is the path-escape
\* error when PathGuard rejects a path; otherwise not-found for a rename whose
\* source is absent; otherwise already-exists. A create repeated right after a
\* successful create fails with already-exists.
C10_NeverClobberAmended ==
    [][/\ (last'.op = "create" /\ exists(fs, Resolved(last'.path)))
            => /\ fs' = fs
               /\ last'.err = IF ~_get_full_path(last'.path).ok THEN PathEscape
                              ELSE "ValueError: File already exists"
       /\ (last'.op = "mkdir" /\ exists(fs, Resolved(last'.path)))
            => /\ fs' = fs
               /\ last'.err = IF ~_get_full_path(last'.path).ok THEN PathEscape
                              ELSE "ValueError: Directory already exists"
       /\ (last'.op = "rename" /\ exists(fs, Resolved(last'.path2)))
            => /\ fs' = fs
               /\ last'.err =
                     IF ~_get_full_path(last'.path).ok \/ ~_get_full_path(last'.path2).ok
                       THEN PathEscape
                     ELSE IF ~exists(fs, Resolved(last'.path))
                       THEN "FileNotFoundError: File not found"
                     ELSE "ValueError: Destination already exists"
       /\ (last.op = "create" /\ last.err = ""
           /\ last'.op = "create" /\ last'.path = last.path)
            => (last'.err = "ValueError: File already exists" /\ fs' = fs)]_vars

\* a rename of one existing file onto another existing file was refused
C10_Witness ==
    /\ last.op = "rename"
    /\ last.err = "ValueError: Destination already exists"
    /\ Resolved(last.path) # Resolved(last.path2)
    /\ exists(fs, Resolved(last.path)) /\ ~isdir(fs, Resolved(last.path))
    /\ exists(fs, Resolved(last.path2)) /\ ~isdir(fs, Resolved(last.path2))

(***************************************************************************)
(* GitService (git_service.py).  The git binary is the environment: each   *)
(* operation is given the return codes and outputs of the commands it      *)
(* runs.  The workspace is a repository when it holds a .git directory.    *)
(* A command is a sequence of words; log is the sequence of commands run.  *)
(***************************************************************************)
GitDir == workspace_dir \o <<"/", ".", "g", "i", "t">>

\* one run of _run_git_command: the fixed words of the command and its
\* variable arguments (character sequences)
Git(words, args) == [cmd |-> words, args |-> args]

GitStatusCmd == Git(<<"status">>, <<>>)

\* GitService.is_git_repo: git status returns 0
is_git_repo(f) == isdir(f, GitDir)

NotARepo == "RuntimeError: Not a git repository"

GitRaise(f, log, e) == [fs |-> f, err |-> e, log |-> log, status |-> NoStatus]

GitReturn(f, log, st) == [fs |-> f, err |-> "", log |-> log, status |-> st]

\* str.splitlines() of an output whose only line separator is "\n"
splitlines(out) ==
    LET pieces == Split(out, "\n")
    IN  IF out = <<>> THEN <<>>
        ELSE IF pieces[Len(pieces)] = <<>> THEN SubSeq(pieces, 1, Len(pieces) - 1)
        ELSE pieces

\* mutant of Classify: the second code character is tested first
ClassifyModifiedFirst(line) ==
    LET status_code == SubSeq(line, 1, 2)
    IN  IF status_code[2] \in {"M", "D"} THEN "modified"
        ELSE IF status_code[1] \in {"M", "A", "D", "R", "C"} THEN "staged"
        ELSE IF status_code = <<"?", "?">> THEN "untracked"
        ELSE "none"

\* the if/elif chain of get_status: the list a status line goes to
Classify(line) ==
    LET status_code == SubSeq(line, 1, 2)
    IN  IF status_code[1] \in {"M", "A", "D", "R", "C"} THEN "staged"
        ELSE IF status_code[2] \in {"M", "D"} THEN "modified"
        ELSE IF status_code = <<"?", "?">> THEN "untracked"
        ELSE "none"

\* the paths of the lines of one class, in order
RECURSIVE PathsOf(_, _)
PathsOf(lines, class) ==
    IF lines = <<>> THEN <<>>
    ELSE LET line == Head(lines)
         IN  (IF Len(line) >= 3 /\ Classify(line) = class
                THEN <<SubSeq(line, 4, Len(line))>> ELSE <<>>)
             \o PathsOf(Tail(lines), class)

\* stdout.strip() or 'main'
CurrentBranch(branch_out) ==
    IF strip(branch_out) = <<>> THEN <<"m", "a", "i", "n">> ELSE strip(branch_out)

BranchCmd == Git(<<"branch", "--show-current">>, <<>>)

\* GitService.get_status with init_repo; init_rc, branch_out and porcelain are
\* what git init, git branch --show-current and git status --porcelain return
get_status(f, init_rc, branch_out, porcelain) ==
    LET repo == is_git_repo(f)
        log1 == IF repo THEN <<GitStatusCmd>> ELSE <<GitStatusCmd, Git(<<"init">>, <<>>)>>
        f1 == IF repo THEN f ELSE os_mkdir(f, GitDir).fs
        lines == splitlines(porcelain)
    IN  IF ~repo /\ init_rc # 0
          THEN GitRaise(f, log1, "RuntimeError: Failed to initialize git repo")
        ELSE GitReturn(f1,
                       log1 \o <<BranchCmd, Git(<<"status", "--porcelain">>, <<>>)>>,
                       [branch |-> CurrentBranch(branch_out),
                        modified_files |-> PathsOf(lines, "modified"),
                        staged_files |-> PathsOf(lines, "staged"),
                        untracked_files |-> PathsOf(lines, "untracked")])

\* the git add commands of add_files up to and including the first that fails
\* (fail_at = 0: none fails)
AddLog(files, fail_at) ==
    [i \in 1..(IF fail_at = 0 THEN Len(files) ELSE fail_at) |-> Git(<<"add">>, <<files[i]>>)]

\* GitService.add_files
add_files(f, files, fail_at) ==
    IF ~is_git_repo(f) THEN GitRaise(f, <<GitStatusCmd>>, NotARepo)
    ELSE IF fail_at # 0
      THEN GitRaise(f, <<GitStatusCmd>> \o AddLog(files, fail_at),
                    "RuntimeError: Failed to add file")
    ELSE GitReturn(f, <<GitStatusCmd>> \o AddLog(files, fail_at), NoStatus)

AddAllCmd == Git(<<"add", "-A">>, <<>>)

\* the truth value of the files argument of commit_changes (if files:)
FilesTruthy(files) == files.given /\ files.list # <<>>

\* GitService.commit_changes; files is [given, list]; fail_at, add_all_rc,
\* commit_rc and nothing (stdout holds 'nothing to commit') come from git
commit_changes(f, message, files, fail_at, add_all_rc, commit_rc, nothing) ==
    LET staged == IF FilesTruthy(files)
                    THEN add_files(f, files.list, fail_at)
                  ELSE IF add_all_rc # 0
                    THEN GitRaise(f, <<AddAllCmd>>, "RuntimeError: Failed to add files")
                  ELSE GitReturn(f, <<AddAllCmd>>, NoStatus)
        log2 == <<GitStatusCmd>> \o staged.log
        commit == Git(<<"commit", "-m">>, <<message>>)
    IN  IF ~is_git_repo(f) THEN GitRaise(f, <<GitStatusCmd>>, NotARepo)
        ELSE IF staged.err # "" THEN GitRaise(f, log2, staged.err)
        ELSE IF commit_rc # 0
          THEN GitRaise(f, log2 \o <<commit>>,
                        IF nothing THEN "RuntimeError: Nothing to commit"
                        ELSE "RuntimeError: Failed to commit")
        ELSE GitReturn(f, log2 \o <<commit>>, NoStatus)

\* the branch query of push_changes and pull_changes (if not branch:)
BranchLog(branch) == IF branch = <<>> THEN <<BranchCmd>> ELSE <<>>

BranchName(branch, branch_out) ==
    IF branch # <<>> THEN branch ELSE CurrentBranch(branch_out)

\* mutant of PushRetry: a failed upstream push is tried once more
PushRetryTwice(remote, b, rc1, rc2) ==
    IF rc1 = 0 THEN <<>>
    ELSE IF rc2 = 0 THEN <<Git(<<"push", "-u">>, <<remote, b>>)>>
    ELSE <<Git(<<"push", "-u">>, <<remote, b>>), Git(<<"push", "-u">>, <<remote, b>>)>>

\* the commands push_changes runs after its first push returned rc1
PushRetry(remote, b, rc1, rc2) ==
    IF rc1 = 0 THEN <<>> ELSE <<Git(<<"push", "-u">>, <<remote, b>>)>>

\* GitService.push_changes; rc1 and rc2 are the return codes of the two pushes
push_changes(f, remote, branch, branch_out, rc1, rc2) ==
    LET b == BranchName(branch, branch_out)
        log == <<GitStatusCmd>> \o BranchLog(branch) \o <<Git(<<"push">>, <<remote, b>>)>>
                   \o PushRetry(remote, b, rc1, rc2)
    IN  IF ~is_git_repo(f) THEN GitRaise(f, <<GitStatusCmd>>, NotARepo)
        ELSE IF rc1 # 0 /\ rc2 # 0 THEN GitRaise(f, log, "RuntimeError: Failed to push")
        ELSE GitReturn(f, log, NoStatus)

\* mutant of pull_changes: no repository check
PullWithoutRepoCheck(f, remote, branch, branch_out, rc) ==
    LET b == BranchName(branch, branch_out)
        log == <<GitStatusCmd>> \o BranchLog(branch) \o <<Git(<<"pull">>, <<remote, b>>)>>
    IN  IF rc = 0 THEN GitReturn(f, log, NoStatus)
        ELSE GitRaise(f, log, "RuntimeError: Failed to pull")

\* GitService.pull_changes; rc is the return code of the pull
pull_changes(f, remote, branch, branch_out, rc) ==
    LET b == BranchName(branch, branch_out)
        log == <<GitStatusCmd>> \o BranchLog(branch) \o <<Git(<<"pull">>, <<remote, b>>)>>
    IN  IF ~is_git_repo(f) THEN GitRaise(f, <<GitStatusCmd>>, NotARepo)
        ELSE IF rc = 0 THEN GitReturn(f, log, NoStatus)
        ELSE GitRaise(f, log, "RuntimeError: Failed to pull")

(***************************************************************************)
(* Inputs and answers of git, and the version-control state machine.       *)
(***************************************************************************)
ReturnCodes == {0, 1}

\* lines of git status --porcelain: "XY path", and one too short to parse
PorcelainLines ==
    { <<"M", "M", " ", "x">>, <<" ", "M", " ", "x">>, <<"?", "?", " ", "c">>,
      <<"U", "U", " ", "u">>, <<"M">> }

RECURSIVE Outputs(_)
Outputs(n) ==
    IF n = 0 THEN {<<>>}
    ELSE Outputs(n - 1)
           \cup {out \o line \o <<"\n">> : out \in Outputs(n - 1) \ {<<>>}, line \in PorcelainLines}
           \cup {line \o <<"\n">> : line \in PorcelainLines}

PorcelainOutputs == Outputs(MaxLines)

BranchOutputs == {<<>>, <<"d", "e", "v", "\n">>}

BranchArgs == {<<>>, <<"d", "e", "v">>}

origin == <<"o", "r", "i", "g", "i", "n">>

Message == <<"m">>

\* the files argument of commit_changes: None, or a list of up to MaxFiles paths
RECURSIVE PathLists(_)
PathLists(n) ==
    IF n = 0 THEN {<<>>}
    ELSE PathLists(n - 1)
           \cup {Append(l, p) : l \in PathLists(n - 1), p \in {<<"a">>, <<"b">>}}

FileLists == {NoFiles} \cup {[given |-> TRUE, list |-> l] : l \in PathLists(MaxFiles)}

GitOp(name, t, files, rcs, result) ==
    /\ steps < MaxGitSteps
    /\ \E r \in {result} :
          /\ steps' = steps + 1
          /\ fs' = r.fs
          /\ last' = [Blank EXCEPT !.op = name, !.text = t, !.files = files, !.rcs = rcs,
                                   !.err = r.err,
                                   !.git = r.log, !.status = r.status]
          /\ UNCHANGED <<sessions, cdTarget>>

GetStatus ==
    \E init_rc \in (IF is_git_repo(fs) THEN {0} ELSE ReturnCodes),
       branch_out \in BranchOutputs, porcelain \in PorcelainOutputs :
        GitOp("get_status", porcelain, NoFiles, <<init_rc>>,
              get_status(fs, init_rc, branch_out, porcelain))

Commit ==
    \E files \in FileLists, fail_at \in 0..MaxFiles, add_all_rc \in ReturnCodes,
       commit_rc \in ReturnCodes, nothing \in BOOLEAN :
        /\ fail_at <= Len(files.list)
        /\ GitOp("commit_changes", <<>>, files, <<fail_at, add_all_rc, commit_rc>>,
                 commit_changes(fs, Message, files, fail_at, add_all_rc, commit_rc, nothing))

Push ==
    \E branch \in BranchArgs, branch_out \in BranchOutputs, rc1 \in ReturnCodes,
       rc2 \in ReturnCodes :
        GitOp("push_changes", <<>>, NoFiles, <<rc1, rc2>>,
              push_changes(fs, origin, branch, branch_out, rc1, rc2))

Pull ==
    \E branch \in BranchArgs, branch_out \in BranchOutputs, rc \in ReturnCodes :
        GitOp("pull_changes", <<>>, NoFiles, <<rc>>,
              pull_changes(fs, origin, branch, branch_out, rc))

NextGit == GetStatus \/ Commit \/ Push \/ Pull

SpecGit == Init /\ [][NextGit]_vars

(***************************************************************************)
(* FileService.get_project_files: os.walk top-down over the workspace.     *)
(* The order in which a directory lists its entries is the filesystem's:   *)
(* order is a sequence of names that every listing follows.                *)
(***************************************************************************)
Hidden(name) == StartsWith(name, <<".">>)

\* the names of the directories (want_dirs) or of the other entries of
\* directory root, in listing order
Listing(f, root, order, want_dirs) ==
    SelectSeq(order, LAMBDA n : /\ exists(f, join(root, n))
                                /\ dirname(join(root, n)) = root
                                /\ isdir(f, join(root, n)) = want_dirs)

\* the loop over filenames: skip dot-files, append, stop at max_files
RECURSIVE AppendFiles(_, _, _, _)
AppendFiles(filenames, root, files, max_files) ==
    IF filenames = <<>> THEN files
    ELSE IF Hidden(Head(filenames)) THEN AppendFiles(Tail(filenames), root, files, max_files)
    ELSE LET added == Append(files, relpath(join(root, Head(filenames)), workspace_dir))
         IN  IF Len(added) >= max_files THEN added
             ELSE AppendFiles(Tail(filenames), root, added, max_files)

\* dirs[:] = [d for d in dirs if not d.startswith('.') or d == '.git']
PruneDirs(dirs) == SelectSeq(dirs, LAMBDA d : ~Hidden(d) \/ d = <<".", "g", "i", "t">>)

\* the loop over os.walk: pending holds the directories still to be walked
RECURSIVE Walk(_, _, _, _, _)
Walk(f, pending, files, max_files, order) ==
    IF pending = <<>> THEN files
    ELSE LET root == Head(pending)
             dirs == PruneDirs(Listing(f, root, order, TRUE))
             filenames == Listing(f, root, order, FALSE)
             found == AppendFiles(filenames, root, files, max_files)
         IN  IF Len(found) >= max_files THEN found
             ELSE Walk(f, [k \in DOMAIN dirs |-> join(root, dirs[k])] \o Tail(pending),
                       found, max_files, order)

\* FileService.get_project_files
get_project_files(f, max_files, order) ==
    IF ~isdir(f, workspace_dir) THEN <<>>
    ELSE Walk(f, <<workspace_dir>>, <<>>, max_files, order)

\* the workspace trees the listing is run on: every subset of these entries
\* that holds the directory of each of its files
ProjectDirs == {<<".", "h">>, <<".", "g", "i", "t">>, <<"d">>}

ProjectFileNames == {<<".", "h", "/", "f">>, <<".", "g", "i", "t", "/", "c">>, <<"d", "/", "g">>, <<"a">>, <<".", "e">>}

Tree(D, Fl) ==
    [q \in {<<"/">>, workspace_dir} \cup {join(workspace_dir, e) : e \in D \cup Fl} |->
        IF q \in {join(workspace_dir, e) : e \in Fl} THEN FileEntry(<<>>) ELSE DirEntry]

ProjectTrees ==
    UNION { { Tree(D, Fl) : Fl \in {X \in SUBSET ProjectFileNames :
                                      \A x \in X : dirname(x) = <<>> \/ dirname(x) \in D} } :
            D \in SUBSET ProjectDirs }

\* two listing orders, one the reverse of the other
ListingOrders ==
    { <<<<"a">>, <<".", "e">>, <<".", "g", "i", "t">>, <<"d">>, <<".", "h">>, <<"f">>, <<"c">>, <<"g">>>>,
      <<<<"g">>, <<"c">>, <<"f">>, <<".", "h">>, <<"d">>, <<".", "g", "i", "t">>, <<".", "e">>, <<"a">>>> }

InitProject ==
    /\ fs \in ProjectTrees
    /\ sessions = [s \in {} |-> NewSession]
    /\ last = Blank
    /\ steps = 0
    /\ cdTarget = [s \in SessionIds |-> workspace_dir]

ProjectFiles ==
    \E max_files \in 0..MaxCount, order \in ListingOrders :
        /\ steps < MaxProjectSteps
        /\ steps' = steps + 1
        /\ last' = [Blank EXCEPT !.op = "get_project_files", !.max = max_files,
                                 !.paths = get_project_files(fs, max_files, order)]
        /\ UNCHANGED <<fs, sessions, cdTarget>>

NextProject == ProjectFiles

SpecProject == InitProject /\ [][NextProject]_vars

(***************************************************************************)
(* Version-control properties (SpecGit).                                   *)
(***************************************************************************)
StatusRan == last.op = "get_status" /\ last.err = ""

\* the lines get_status parses: those with a code, a separator and a path
ParsedLines == {l \in PorcelainLines : Len(l) >= 3}

LinesOfLast == {l \in ParsedLines : \E i \in DOMAIN splitlines(last.text) :
                                       splitlines(last.text)[i] = l}

Elems(seq) == {seq[i] : i \in DOMAIN seq}

PathOfLine(l) == SubSeq(l, 4, Len(l))

\* the class the specification gives a line
ExpectedClass(l) ==
    IF SubSeq(l, 1, 2) = <<"?", "?">> THEN "untracked"
    ELSE IF l[1] # " " THEN "staged"
    ELSE IF l[2] # " " THEN "modified"
    ELSE "none"

ListOf(class) ==
    IF class = "staged" THEN Elems(last.status.staged_files)
    ELSE IF class = "modified" THEN Elems(last.status.modified_files)
    ELSE IF class = "untracked" THEN Elems(last.status.untracked_files)
    ELSE {}

\* C11: a successful get_status puts the path of every status line in the
\* list its code names: ?? in untracked, otherwise a non-space first
\* character in staged, otherwise a non-space second character in modified;
\* no line with a non-space code character is left out.
C11_EveryLineClassified ==
    StatusRan =>
        \A l \in LinesOfLast :
            ExpectedClass(l) # "none" => PathOfLine(l) \in ListOf(ExpectedClass(l))

\* the commands of the last operation whose first word is w
RECURSIVE Runs(_, _)
Runs(log, w) ==
    IF log = <<>> THEN <<>>
    ELSE (IF Head(log).cmd[1] = w THEN <<Head(log)>> ELSE <<>>) \o Runs(Tail(log), w)

\* the last operation got past its repository check
PastRepoCheck == last.err # NotARepo

CommitRan == last.op = "commit_changes" /\ PastRepoCheck

\* the paths the git add commands of the last operation name, in order
Staged == [i \in DOMAIN Runs(last.git, "add") |-> Runs(last.git, "add")[i].args]

\* C12: a commit with a files list (the empty list included) stages the
\* paths of the list and nothing else, runs add -A exactly when files is
\* omitted, and runs git commit only after every add succeeded.
C12_CommitStagesFiles ==
    CommitRan =>
        /\ (AddAllCmd \in Elems(last.git)) <=> ~last.files.given
        /\ last.files.given /\ last.rcs[1] = 0 =>
               Staged = [i \in DOMAIN last.files.list |-> <<last.files.list[i]>>]
        /\ Runs(last.git, "commit") # <<>> =>
               /\ last.git[Len(last.git)].cmd[1] = "commit"
               /\ last.files.given => last.rcs[1] = 0
               /\ ~last.files.given => last.rcs[2] = 0

PushRan == last.op = "push_changes" /\ PastRepoCheck

PullRan == last.op = "pull_changes" /\ PastRepoCheck

Pushes == Runs(last.git, "push")

\* C13: on a repository a push runs the plain push, then, only if that one
\* failed, one push -u and no more; it fails exactly when both failed.  A
\* pull runs one pull and fails exactly when that one failed.
C13_PushRetriesOnce ==
    /\ last.op = "push_changes" => Len(Pushes) <= 2
    /\ PushRan =>
          /\ Len(Pushes) >= 1 /\ Pushes[1].cmd = <<"push">>
          /\ Len(Pushes) = 2 <=> last.rcs[1] # 0
          /\ Len(Pushes) = 2 => Pushes[2].cmd = <<"push", "-u">>
          /\ last.err = "RuntimeError: Failed to push" <=> last.rcs[1] # 0 /\ last.rcs[2] # 0
          /\ last.err = "" <=> last.rcs[1] = 0 \/ last.rcs[2] = 0
    /\ last.op = "pull_changes" => Len(Runs(last.git, "pull")) <= 1
    /\ PullRan =>
          /\ Len(Runs(last.git, "pull")) = 1
          /\ last.err = "RuntimeError: Failed to pull" <=> last.rcs[1] # 0
          /\ last.err = "" <=> last.rcs[1] = 0

C13_Witness ==
    /\ PushRan /\ Len(Pushes) = 2 /\ last.err = ""
    /\ last.rcs = <<1, 0>>

InitCmd == Git(<<"init">>, <<>>)

\* the position of the first command of the log with first word w, 0 if none
FirstRun(log, w) ==
    IF \E i \in DOMAIN log : log[i].cmd[1] = w
      THEN CHOOSE i \in DOMAIN log : log[i].cmd[1] = w /\ \A j \in 1..(i - 1) : log[j].cmd[1] # w
    ELSE 0

\* C14: only get_status initializes: on a workspace that is no repository
\* it runs git init before its branch and status queries, while commit,
\* push and pull fail there with the not-a-repository error, run nothing
\* but the repository probe and leave the workspace as it was.
C14_OnlyStatusInitializes ==
    [][ /\ last'.op \in {"commit_changes", "push_changes", "pull_changes"} =>
              /\ InitCmd \notin Elems(last'.git)
              /\ ~isdir(fs, GitDir) =>
                    /\ last'.err = NotARepo
                    /\ last'.git = <<GitStatusCmd>>
                    /\ fs' = fs
        /\ last'.op = "get_status" /\ ~isdir(fs, GitDir) =>
              /\ last'.git[2] = InitCmd
              /\ \A i \in DOMAIN last'.git :
                     last'.git[i].cmd \in {BranchCmd.cmd, <<"status", "--porcelain">>} => i > 2
              /\ last'.err = "" => isdir(fs', GitDir)
        /\ last'.op = "get_status" /\ isdir(fs, GitDir) => InitCmd \notin Elems(last'.git)
      ]_vars

C14_Witness ==
    /\ last.op = "pull_changes" /\ last.err = NotARepo /\ ~isdir(fs, GitDir)

PathsOfLast == [i \in DOMAIN splitlines(last.text) |-> PathOfLine(splitlines(last.text)[i])]

\* no path stands on two lines of the parsed output
DistinctPaths ==
    \A i, j \in DOMAIN PathsOfLast :
        i # j /\ Len(splitlines(last.text)[i]) >= 3 /\ Len(splitlines(last.text)[j]) >= 3 =>
            PathsOfLast[i] # PathsOfLast[j]

\* C15: get_status puts the path of each status line in at most one list,
\* the staged test first: the path of "MM x" is staged and not modified;
\* when no path stands on two lines the three lists are pairwise disjoint.
C15_ListsDisjoint ==
    StatusRan =>
        /\ Len(last.status.staged_files) + Len(last.status.modified_files)
             + Len(last.status.untracked_files) <= Len(splitlines(last.text))
        /\ DistinctPaths /\ <<"M", "M", " ", "x">> \in LinesOfLast =>
               /\ <<"x">> \in ListOf("staged")
               /\ <<"x">> \notin ListOf("modified")
        /\ DistinctPaths =>
               /\ ListOf("staged") \cap ListOf("modified") = {}
               /\ ListOf("staged") \cap ListOf("untracked") = {}
               /\ ListOf("modified") \cap ListOf("untracked") = {}

C15_Witness ==
    /\ StatusRan /\ DistinctPaths
    /\ LinesOfLast = {<<"M", "M", " ", "x">>, <<"?", "?", " ", "c">>}

(***************************************************************************)
(* Project listing properties (SpecProject).                               *)
(***************************************************************************)
Components(path) == Elems(Split(path, "/"))

\* C16: get_project_files(max_files) returns at most max_files paths (none
\* for 0), no file whose name starts with a dot and nothing from below a
\* hidden directory other than .git.
C16_ProjectFilesBounded ==
    last.op = "get_project_files" =>
        /\ Len(last.paths) <= last.max
        /\ \A i \in DOMAIN last.paths :
               /\ ~Hidden(basename(last.paths[i]))
               /\ \A c \in Components(dirname(last.paths[i])) :
                      Hidden(c) => c = <<".", "g", "i", "t">>

(***************************************************************************)
(* Session properties (Spec).                                              *)
(***************************************************************************)
\* C17: a call under one session identifier leaves every other session as
\* it was, and an existing session is never removed; its cwd changes only
\* by a cd of its own that returns 0 and its geometry only by a resize of
\* its own, so the lazy-creation checks never reset it.
C17_SessionsIsolated ==
    [][ \A B \in DOMAIN sessions :
            /\ B \in DOMAIN sessions'
            /\ B # last'.sid => sessions'[B] = sessions[B]
            /\ B = last'.sid =>
                  /\ ~(last'.op = "execute" /\ IsCd(last'.cmd) /\ last'.res.exit_code = 0) =>
                         sessions'[B].cwd = sessions[B].cwd
                  /\ last'.op # "resize" =>
                         /\ sessions'[B].rows = sessions[B].rows
                         /\ sessions'[B].cols = sessions[B].cols
      ]_vars

C17_Witness ==
    /\ DOMAIN sessions = SessionIds
    /\ sessions["default"].cwd # workspace_dir
    /\ sessions["s2"].cwd = workspace_dir
    /\ last.op \in {"resize", "info", "execute"} /\ last.sid = "s2"

(***************************************************************************)
(* Further file store properties (SpecFile).                               *)
(***************************************************************************)
\* C18: whatever file operations are called with whatever paths, the
\* workspace root directory is still there, where it was.
C18_RootPersists == isdir(fs, workspace_dir)

\* C19: a rename that fails, for whatever reason, leaves the filesystem as
\* it was before the call.
C19_FailedRenameChangesNothing ==
    [][last'.op = "rename" /\ last'.err # "" => fs' = fs]_vars

(***************************************************************************)
(* The "Command not found" result (Spec).                                  *)
(***************************************************************************)
\* C20: the sandbox answers "Command not found" with exit code 127 only
\* when the executable named by the first token cannot be found; a command
\* whose executable exists, run in a session whose directory was deleted
\* after the cd, is not answered so (sessions inside the workspace).
C20_NotFoundOnlyForMissingExecutable ==
    /\ ExecuteRan
    /\ last.res.exit_code = 127
    /\ last.res.error.msg = "Command not found: {arg}\n"
    /\ InWorkspaceTree(sessions[last.sid].cwd)
    => /\ shlex_split(last.cmd).args # <<>>
       /\ shlex_split(last.cmd).args[1] \notin Executables

====
